---- MODULE Spec2Model ----
(***************************************************************************)
(* Model of the logging subsystem of src/log.ts: the process-wide adapter  *)
(* binding, the default file+console adapter, the leveled facade and the   *)
(* request instrumentation middleware.                                      *)
(*                                                                          *)
(* JavaScript runs every handler to completion on one thread, so each       *)
(* handler is one action.  What a handler does, call by call, is appended   *)
(* to the history variable trace, so that the order of the calls inside a  *)
(* handler can be stated.  Time passes between handlers: a handler that     *)
(* reads the clock reads a value not before the last reading.               *)
(*                                                                          *)
(* A replacement adapter is code of the embedding program; its log() may    *)
(* return or throw.  A line counts as logged when log() is called with it,  *)
(* which is all the facade and the middleware decide.                       *)
(***************************************************************************)
EXTENDS Integers, Sequences, FiniteSets, TLC

VARIABLES
    loaded,        \* the module body of log.ts has run
    logDirExists,  \* <cwd>/log exists on disk
    logAdapter,    \* the binding `let logAdapter`
    file,          \* the records of <cwd>/log/app.log, in order
    console,       \* what was written to the console, in order
    clock,         \* the last reading of the wall clock (Date.now(), new Date())
    reqs,          \* per request: the req/res objects the middleware touches
    trace          \* history: every call made, in order

vars == <<loaded, logDirExists, logAdapter, file, console, clock, reqs, trace>>

----------------------------------------------------------------------------
(* Bounds of the model *)

MaxOps == 3
MaxEnds == 2
MaxFacadeCalls == 1
MaxSwaps == 1
MaxClock == 1

----------------------------------------------------------------------------
(* Values *)

Undefined == "<undefined>"
NoReq == 0

INFO == "INFO"
WARN == "WARN"
ERROR == "ERROR"
DEBUG == "DEBUG"
LogLevel == {INFO, WARN, ERROR, DEBUG}

Default == "DefaultLogAdapter"
CustomAdapters == {"AdapterB"}

\* the requests the host hands to the middleware, each once, with its
\* req.method and req.url
Requests == {1, 2}
Methods == {"GET", "POST"}
Urls == {"/health", "/users"}
reqMethod(r) == IF r % 2 = 1 THEN "GET" ELSE "POST"
reqUrl(r) == IF r % 2 = 1 THEN "/health" ELSE "/users"

\* what crypto.randomUUID() can return: any of these at every call
UUIDs == {"u1", "u2"}

\* the inputs of the facade and of res.end(chunk, encoding, cb)
Messages == {"hello"}
FacadeMethods == {"info", "warn", "debug", "error"}
EndArgs == {<<"body", "utf8", "cb">>}

\* a JavaScript condition on an optional string: undefined and "" are falsy
Truthy(v) == v # Undefined /\ v # ""

----------------------------------------------------------------------------
(* The default adapter *)

\* new Date().toLocaleString() of the clock reading t
toLocaleString(t) == "T" \o ToString(t)

\* chalk.<color>(s): s between the color's SGR open and close codes
chalk(color, s) ==
    LET open == CASE color = "red" -> "ESC[31m"
                  [] color = "yellow" -> "ESC[33m"
                  [] color = "blue" -> "ESC[34m"
                  [] color = "cyan" -> "ESC[36m"
                  [] color = "gray" -> "ESC[90m"
    IN open \o s \o "ESC[39m"

methodColor(method) == IF Truthy(method) THEN chalk("cyan", method \o " ") ELSE ""

\* faulty variant: the method segment is written whether or not a method was given
logMessage_alwaysMethod(level, message, method, timestamp) ==
    "[" \o level \o "] " \o method \o " " \o timestamp \o ": " \o message \o "\n"

logMessage(level, message, method, timestamp) ==
    "[" \o level \o "] " \o (IF Truthy(method) THEN method \o " " ELSE "")
        \o timestamp \o ": " \o message \o "\n"

\* coloredMessage with its leading `[level]` replaced by the colored tag: the
\* string starts with `[level]`, which is therefore the first match of replace
styledMessage(level, message, method, timestamp, color) ==
    chalk(color, "[" \o level \o "]") \o " " \o methodColor(method)
        \o timestamp \o ": " \o message \o "\n"

\* faulty variant: DEBUG shares the case of WARN
consoleMethod_debugAsWarn(level) ==
    CASE level = ERROR -> "error"
      [] level = WARN -> "warn"
      [] level = DEBUG -> "warn"
      [] OTHER -> "log"

\* the switch on level: the console method called, and the color of the tag
consoleMethod(level) ==
    CASE level = ERROR -> "error"
      [] level = WARN -> "warn"
      [] level = DEBUG -> "debug"
      [] OTHER -> "log"

levelColor(level) ==
    CASE level = ERROR -> "red"
      [] level = WARN -> "yellow"
      [] level = DEBUG -> "gray"
      [] OTHER -> "blue"

\* `${error}` of the Error appendFileSync threw
errorString(err) == "Error: " \o err

fallbackLine(err) == "Failed to write log: " \o errorString(err)

\* faulty variant: the catch clause swallows the error
catchEvents_silent(err) == <<>>

\* the catch clause of DefaultLogAdapter.log: what it does with the error of
\* the try block, and whether the error leaves log()
catchEvents(err) == <<[type |-> "console", method |-> "error", text |-> fallbackLine(err)]>>

\* faulty variant: no try/catch: the error of appendFileSync leaves log()
catchRethrows_uncaught == TRUE

catchRethrows == FALSE

\* DefaultLogAdapter.log(level, message, method), when the clock reads now and
\* appendFileSync ends with err ("" for success): the events of the call and
\* whether it throws
DefaultLog(level, message, method, err, now) ==
    LET timestamp == toLocaleString(now)
        line == logMessage(level, message, method, timestamp)
        append == [type |-> "append", ok |-> (err = ""), err |-> err, line |-> line,
                   timestamp |-> timestamp]
    IN IF err = ""
       THEN [events |-> <<append,
                          [type |-> "console", method |-> consoleMethod(level),
                           text |-> styledMessage(level, message, method, timestamp,
                                                  levelColor(level))]>>,
             threw |-> FALSE]
       ELSE [events |-> <<append>> \o catchEvents(err),
             threw |-> catchRethrows]

\* a replacement adapter is code of the embedding program: its log() returns
\* or throws
CustomLog(throws) == [events |-> <<>>, threw |-> throws]

\* what the environment answers during one handler run in which log() is
\* called on adapter a: the reading of the clock (time has passed since the
\* last reading; a run that reads no clock leaves the reading as it is), the
\* result of appendFileSync, and whether a replacement adapter throws
Outcomes(a, readsClock) ==
    LET times == IF readsClock \/ a = Default THEN clock..MaxClock ELSE {clock}
    IN IF a = Default
       THEN {[err |-> e, throws |-> FALSE, now |-> t] :
                e \in (IF logDirExists THEN {"", "ENOSPC"} ELSE {"ENOENT"}), t \in times}
       ELSE {[err |-> "", throws |-> b, now |-> t] : b \in BOOLEAN, t \in times}

----------------------------------------------------------------------------
(* writeLog and the facade *)

\* faulty variant: writeLog keeps calling the adapter bound when the module was loaded
boundAdapter_initial == Default

\* the adapter writeLog calls
boundAdapter == logAdapter

\* faulty variant: the call on the adapter is made twice
writeLog_twice(message, level, method, req, o) ==
    LET a == logAdapter
        r == IF a = Default THEN DefaultLog(level, message, method, o.err, o.now)
                            ELSE CustomLog(o.throws)
        ev == <<[type |-> "log", adapter |-> a, level |-> level,
                 message |-> message, method |-> method, req |-> req,
                 threw |-> r.threw]>> \o r.events
    IN [events |-> ev \o ev, threw |-> r.threw]

\* writeLog(message, level, method) made on behalf of request req (NoReq for
\* the facade), the adapter's call ending with outcome o: the call on the
\* adapter followed by what the adapter does
writeLog(message, level, method, req, o) ==
    LET a == boundAdapter
        r == IF a = Default THEN DefaultLog(level, message, method, o.err, o.now)
                            ELSE CustomLog(o.throws)
    IN [events |-> <<[type |-> "log", adapter |-> a, level |-> level,
                      message |-> message, method |-> method, req |-> req,
                      threw |-> r.threw]>> \o r.events,
        threw |-> r.threw]

\* faulty variant: debug() passes the level of info()
facadeLevel_debugAsInfo(name) ==
    CASE name = "info" -> INFO
      [] name = "warn" -> WARN
      [] name = "debug" -> INFO
      [] name = "error" -> ERROR

\* the level each method of class Log passes to writeLog
facadeLevel(name) ==
    CASE name = "info" -> INFO
      [] name = "warn" -> WARN
      [] name = "debug" -> DEBUG
      [] name = "error" -> ERROR

\* the method label the methods of class Log pass to writeLog
facadeMethodLabel == Undefined

\* the events of one facade call that ends with outcome o
facadeEvents(name, message, o) ==
    LET w == writeLog(message, facadeLevel(name), facadeMethodLabel, NoReq, o)
    IN <<[type |-> "facade", name |-> name, message |-> message]>> \o w.events
         \o <<[type |-> IF w.threw THEN "raise" ELSE "return",
               handler |-> "facade", req |-> NoReq]>>

----------------------------------------------------------------------------
(* The middleware *)

startedMessage(requestId, url) == "[" \o requestId \o "] " \o url \o " - Request started"

\* faulty variant: the template interpolates url where requestId belongs
completedMessage_urlAsId(requestId, url, duration) ==
    "[" \o url \o "] " \o url \o " - Request completed in "
        \o ToString(duration) \o "ms"

completedMessage(requestId, url, duration) ==
    "[" \o requestId \o "] " \o url \o " - Request completed in "
        \o ToString(duration) \o "ms"

\* what logger does after writeLog returned: res.end is replaced, next() called
loggerTail(r) ==
    <<[type |-> "wrap", req |-> r],
      [type |-> "next", req |-> r],
      [type |-> "return", handler |-> "logger", req |-> r]>>

\* faulty variant: next() is called before the request is annotated and logged
loggerEvents_nextFirst(r, method, url, requestId, o) ==
    LET w == writeLog(startedMessage(requestId, url), INFO, method, r, o)
    IN <<[type |-> "logger", req |-> r, method |-> method, url |-> url, at |-> o.now],
         [type |-> "next", req |-> r],
         [type |-> "attach", req |-> r, requestId |-> requestId]>>
         \o w.events
         \o (IF w.threw THEN <<[type |-> "raise", handler |-> "logger", req |-> r]>>
                        ELSE <<[type |-> "wrap", req |-> r],
                               [type |-> "return", handler |-> "logger", req |-> r]>>)

\* logger(req, res, next) on request r with req.method = method, req.url = url,
\* crypto.randomUUID() returning requestId and the log call ending with o
loggerEvents(r, method, url, requestId, o) ==
    LET w == writeLog(startedMessage(requestId, url), INFO, method, r, o)
    IN <<[type |-> "logger", req |-> r, method |-> method, url |-> url, at |-> o.now],
         [type |-> "attach", req |-> r, requestId |-> requestId]>>
         \o w.events
         \o (IF w.threw THEN <<[type |-> "raise", handler |-> "logger", req |-> r]>>
                        ELSE loggerTail(r))

\* res.end.bind(res)(chunk, encoding, cb): the response is finalized and
\* returned
originalEnd(r, args) ==
    [type |-> "originalEnd", req |-> r, args |-> args, result |-> r]

\* faulty variant: the wrapper forwards the chunk alone
forwardedArgs_chunkOnly(args) == <<args[1], Undefined, Undefined>>

\* the arguments the wrapper passes to originalEnd
forwardedArgs(args) == <<args[1], args[2], args[3]>>

\* what the wrapper does after writeLog returned
wrapperTail(r, args) ==
    LET e == originalEnd(r, forwardedArgs(args))
    IN <<e, [type |-> "return", handler |-> "end", req |-> r, value |-> e.result]>>

\* the function assigned to res.end, with the closure c of its logger call
wrapperEvents(r, c, args, o) ==
    LET duration == o.now - c.startTime
        w == writeLog(completedMessage(c.requestId, c.url, duration), INFO, c.method, r, o)
    IN w.events
         \o (IF w.threw THEN <<[type |-> "raise", handler |-> "end", req |-> r]>>
                        ELSE wrapperTail(r, args))

\* faulty variant: requestId, url, method and startTime are kept in variables
\* of the module, which every call of logger overwrites
endEvents_sharedContext(r, args, o) ==
    <<[type |-> "end", req |-> r, args |-> args, at |-> o.now]>>
      \o (IF reqs[r].wrapped
          THEN LET last == CHOOSE q \in Requests :
                               reqs[q].arrived /\ \A p \in Requests : reqs[p].arrived => p <= q
               IN wrapperEvents(r, reqs[last].closure, args, o)
          ELSE LET e == originalEnd(r, args)
               IN <<e, [type |-> "return", handler |-> "end", req |-> r,
                        value |-> e.result]>>)

\* res.end(chunk, encoding, cb) on the response of request r, at time o.now
endEvents(r, args, o) ==
    <<[type |-> "end", req |-> r, args |-> args, at |-> o.now]>>
      \o (IF reqs[r].wrapped
          THEN wrapperEvents(r, reqs[r].closure, args, o)
          ELSE LET e == originalEnd(r, args)
               IN <<e, [type |-> "return", handler |-> "end", req |-> r,
                        value |-> e.result]>>)

----------------------------------------------------------------------------
(* Effects of a handler's events on the file and the console *)

Appended(events) ==
    LET ok == SelectSeq(events, LAMBDA e : e.type = "append" /\ e.ok)
    IN [i \in DOMAIN ok |-> ok[i].line]

Printed(events) ==
    LET pr == SelectSeq(events, LAMBDA e : e.type = "console")
    IN [i \in DOMAIN pr |-> [method |-> pr[i].method, text |-> pr[i].text]]

Count(type) == Len(SelectSeq(trace, LAMBDA e : e.type = type))

CountFor(type, r) == Len(SelectSeq(trace, LAMBDA e : e.type = type /\ e.req = r))

\* the handlers run so far
Ops == Len(SelectSeq(trace, LAMBDA e : e.type \in {"set", "facade", "logger", "end"}))

Has(events, type) == \E i \in DOMAIN events : events[i].type = type

Emit(events) ==
    /\ trace' = trace \o events
    /\ file' = file \o Appended(events)
    /\ console' = console \o Printed(events)

----------------------------------------------------------------------------
(* Actions *)

NoClosure == [requestId |-> Undefined, method |-> Undefined, url |-> Undefined,
              startTime |-> 0]

\* the module body has run: the log directory exists, the default adapter is bound
Init ==
    /\ loaded = TRUE
    /\ logDirExists = TRUE
    /\ logAdapter = Default
    /\ file = <<>>
    /\ console = <<>>
    /\ clock = 0
    /\ reqs = [r \in Requests |-> [arrived |-> FALSE, requestId |-> Undefined,
                                   wrapped |-> FALSE, closure |-> NoClosure]]
    /\ trace = <<>>

\* the process before the module body has run: the log directory is there or not
InitLoad ==
    /\ loaded = FALSE
    /\ logDirExists \in BOOLEAN
    /\ logAdapter = Undefined
    /\ file = <<>>
    /\ console = <<>>
    /\ clock = 0
    /\ reqs = [r \in Requests |-> [arrived |-> FALSE, requestId |-> Undefined,
                                   wrapped |-> FALSE, closure |-> NoClosure]]
    /\ trace = <<>>

\* faulty variant: the module body does not look at the log directory
ModuleLoad_noMkdir ==
    /\ ~loaded
    /\ loaded' = TRUE
    /\ logAdapter' = Default
    /\ trace' = trace \o <<[type |-> "load", existed |-> logDirExists]>>
    /\ UNCHANGED <<logDirExists, file, console, clock, reqs>>

\* the module body, from a state before it ran: the log directory is made if
\* absent, the default adapter bound
ModuleLoad ==
    /\ ~loaded
    /\ loaded' = TRUE
    /\ logDirExists' = TRUE
    /\ logAdapter' = Default
    /\ trace' = trace \o <<[type |-> "load", existed |-> logDirExists]>>
                     \o (IF ~logDirExists THEN <<[type |-> "mkdir"]>> ELSE <<>>)
    /\ UNCHANGED <<file, console, clock, reqs>>

setLogAdapter(adapter) ==
    /\ loaded
    /\ Count("set") < MaxSwaps
    /\ Ops < MaxOps
    /\ logAdapter' = adapter
    /\ trace' = trace \o <<[type |-> "set", adapter |-> adapter]>>
    /\ UNCHANGED <<loaded, logDirExists, file, console, clock, reqs>>

\* log.info / log.warn / log.debug / log.error
Log(name, message) ==
    /\ loaded
    /\ Count("facade") < MaxFacadeCalls
    /\ Ops < MaxOps
    /\ \E o \in Outcomes(logAdapter, FALSE) :
         /\ Emit(facadeEvents(name, message, o))
         /\ clock' = o.now
    /\ UNCHANGED <<loaded, logDirExists, logAdapter, reqs>>

\* the host calls the middleware on the next request
logger(r) ==
    /\ loaded
    /\ ~reqs[r].arrived
    /\ \A q \in Requests : q < r => reqs[q].arrived
    /\ Ops < MaxOps
    /\ \E requestId \in UUIDs, o \in Outcomes(logAdapter, TRUE) :
         LET method == reqMethod(r)
             url == reqUrl(r)
             ev == loggerEvents(r, method, url, requestId, o)
         IN /\ Emit(ev)
            /\ clock' = o.now
            /\ reqs' = [reqs EXCEPT ![r] =
                   [arrived |-> TRUE,
                    requestId |-> IF Has(ev, "attach") THEN requestId ELSE Undefined,
                    wrapped |-> Has(ev, "wrap"),
                    closure |-> [requestId |-> requestId, method |-> method,
                                 url |-> url, startTime |-> o.now]]]
    /\ UNCHANGED <<loaded, logDirExists, logAdapter>>

\* a handler or the host calls res.end on the response of request r
resEnd(r, args) ==
    /\ loaded
    /\ reqs[r].arrived
    /\ CountFor("end", r) < MaxEnds
    /\ Ops < MaxOps
    /\ \E o \in (IF reqs[r].wrapped THEN Outcomes(logAdapter, TRUE)
                                   ELSE {[err |-> "", throws |-> FALSE, now |-> clock]}) :
         /\ Emit(endEvents(r, args, o))
         /\ clock' = o.now
    /\ UNCHANGED <<loaded, logDirExists, logAdapter, reqs>>

\* the environment removes the log directory (while a call can still follow)
RemoveLogDir ==
    /\ loaded
    /\ logDirExists
    /\ Ops < MaxOps
    /\ logDirExists' = FALSE
    /\ trace' = trace \o <<[type |-> "rmdir"]>>
    /\ UNCHANGED <<loaded, logAdapter, file, console, clock, reqs>>

Next ==
    \/ \E a \in CustomAdapters : setLogAdapter(a)
    \/ \E n \in FacadeMethods, m \in Messages : Log(n, m)
    \/ \E r \in Requests : logger(r)
    \/ \E r \in Requests, args \in EndArgs : resEnd(r, args)

Spec == Init /\ [][Next]_vars

\* Date.now() reads the system's wall clock, which a clock step (a time
\* synchronisation, an operator setting the time) moves back.
ClockSetBack ==
    /\ loaded
    /\ clock > 0
    /\ clock' \in 0..(clock - 1)
    /\ UNCHANGED <<loaded, logDirExists, logAdapter, file, console, reqs, trace>>

NextWallClock == Next \/ ClockSetBack

SpecWallClock == Init /\ [][NextWallClock]_vars

\* message: string of the facade takes any text, line breaks included
MultiLineMessages == {"a\nb"}

NextText == Next \/ (\E n \in FacadeMethods, m \in MultiLineMessages : Log(n, m))

SpecText == Init /\ [][NextText]_vars

\* the process from its start: the module body runs first (every other action
\* waits for it), and the environment may remove the log directory afterwards
NextLoad == ModuleLoad \/ Next \/ RemoveLogDir

SpecLoad == InitLoad /\ [][NextLoad]_vars

----------------------------------------------------------------------------
(* Reading the history *)

EnterTypes == {"set", "facade", "logger", "end"}
ExitTypes == {"return", "raise"}

Max(S) == CHOOSE x \in S : \A y \in S : y <= x

\* the positions of the history where a handler of the given type starts
Enters(type) == {i \in DOMAIN trace : trace[i].type = type}

\* the first position from j on where a handler run ends
RECURSIVE ExitFrom(_)
ExitFrom(j) == IF trace[j].type \in ExitTypes THEN j ELSE ExitFrom(j + 1)

\* the start of the latest handler run of the given type, if the latest run is
\* of that type.  Every run is the latest one in the state it leaves, so what
\* holds of the latest run in every reachable state holds of every run.
Latest(type) ==
    {i \in Enters(type) : \A j \in (i + 1)..Len(trace) : trace[j].type \notin EnterTypes}

\* the last position of the handler run that starts at i
SegEnd(i) == IF trace[i].type = "set" THEN i ELSE ExitFrom(i)

Seg(i) == i..SegEnd(i)

\* the positions of the handler run starting at i that hold an event of a type
In(i, type) == {k \in Seg(i) : trace[k].type = type}

\* the adapter that the calls of setLogAdapter before position k left bound
BoundAt(k) ==
    LET sets == {j \in 1..(k - 1) : trace[j].type = "set"}
    IN IF sets = {} THEN Default ELSE trace[Max(sets)].adapter

\* the calls of log() made for request r by the middleware (logger) or by the
\* wrapper (end)
LogsOf(r, handler) ==
    UNION {In(i, "log") : i \in {j \in Enters(handler) : trace[j].req = r}}

\* the texts the claims speak of, by the values they carry
StartedTextOf ==
    [id \in UUIDs, url \in Urls |-> "[" \o id \o "] " \o url \o " - Request started"]
CompletedTextsOf ==
    [id \in UUIDs, url \in Urls |->
        {"[" \o id \o "] " \o url \o " - Request completed in " \o ToString(n) \o "ms" :
            n \in 0..MaxClock}]
FallbackTextOf ==
    [e \in {"ENOSPC", "ENOENT"} |-> "Failed to write log: Error: " \o e]
FallbackTexts == {FallbackTextOf[e] : e \in DOMAIN FallbackTextOf}

----------------------------------------------------------------------------
(* C1 *)

NamedLevel(name) ==
    CASE name = "info" -> "INFO"
      [] name = "warn" -> "WARN"
      [] name = "debug" -> "DEBUG"
      [] name = "error" -> "ERROR"

\* C1: one call of log.info / log.warn / log.debug / log.error with message M
\* makes exactly one call of log() in all, on the adapter bound at that moment,
\* with the level the method is named after, the message M and no method label.
C1_FacadePassThrough ==
    \A i \in Latest("facade") :
        /\ Cardinality(In(i, "log")) = 1
        /\ \A k \in In(i, "log") :
              /\ trace[k].adapter = BoundAt(i)
              /\ trace[k].level = NamedLevel(trace[i].name)
              /\ trace[k].message = trace[i].message
              /\ trace[k].method = Undefined

C1_Witness ==
    \E i \in Enters("facade") :
        /\ trace[i].name = "debug"
        /\ BoundAt(i) = "AdapterB"
        /\ \E k \in In(i, "log") : trace[k].adapter = "AdapterB" /\ trace[k].level = "DEBUG"

----------------------------------------------------------------------------
(* C2 *)

\* C2: every call of log() goes to the adapter the last setLogAdapter before it
\* bound (the default adapter if there was none), the 'Request completed' call
\* of a request started under the previous adapter included, and
\* setLogAdapter itself delivers nothing to either adapter.
C2_RoutesToBoundAdapter ==
    /\ \A k \in DOMAIN trace :
          trace[k].type = "log" => trace[k].adapter = BoundAt(k)
    /\ \A i \in Enters("set") :
          i < Len(trace) => trace[i + 1].type \in EnterTypes
    /\ logAdapter = BoundAt(Len(trace) + 1)

C2_Witness ==
    \E r \in Requests, s \in Enters("set") :
        /\ \E j \in LogsOf(r, "logger") : j < s /\ trace[j].adapter = Default
        /\ \E k \in LogsOf(r, "end") :
              /\ k > s
              /\ trace[k].adapter = trace[s].adapter
              /\ trace[k].adapter # Default

----------------------------------------------------------------------------
(* C3 *)

\* C3: the id in every 'Request completed' line of a request is the id in the
\* request's 'Request started' line and the requestId attached to the request.
C3_SameCorrelationId ==
    \A r \in Requests :
        \A k \in LogsOf(r, "end") :
            \E id \in UUIDs :
                /\ trace[k].message \in CompletedTextsOf[id, reqUrl(r)]
                /\ reqs[r].requestId = id
                /\ \E j \in LogsOf(r, "logger") :
                      j < k /\ trace[j].message = StartedTextOf[id, reqUrl(r)]

C3_Witness ==
    \E r \in Requests :
        /\ LogsOf(r, "end") # {}
        /\ reqs[r].requestId = "u2"

----------------------------------------------------------------------------
(* C4 *)

\* C4: every run of the middleware calls next() exactly once, before it
\* returns, whatever the outcome of its log call; next() is called nowhere else.
C4_NextExactlyOnce ==
    /\ \A i \in Enters("logger") : Cardinality(In(i, "next")) = 1
    /\ \A i \in Enters("end") \cup Enters("facade") : In(i, "next") = {}

----------------------------------------------------------------------------
(* C5 *)

\* C5: a handler run in which appendFileSync failed ends by returning, never
\* by raising; if it is a run of the middleware it has called next(), and if
\* it is a run of the wrapped res.end it has called the original end.
C5_AppendFailureContained ==
    \A i \in Latest("facade") \cup Latest("logger") \cup Latest("end") :
        (\E k \in In(i, "append") : ~trace[k].ok) =>
            /\ trace[SegEnd(i)].type = "return"
            /\ \A k \in In(i, "log") : ~trace[k].threw
            /\ trace[i].type = "logger" =>
                  \E n \in In(i, "next") : trace[n].req = trace[i].req
            /\ trace[i].type = "end" =>
                  \E n \in In(i, "originalEnd") : trace[n].req = trace[i].req

C5_Witness ==
    /\ \E i \in Enters("logger") :
          /\ \E k \in In(i, "append") : ~trace[k].ok
          /\ In(i, "next") # {}
    /\ \E i \in Enters("end") :
          /\ \E k \in In(i, "append") : ~trace[k].ok
          /\ In(i, "originalEnd") # {}
    /\ \E i \in Enters("facade") :
          /\ \E k \in In(i, "append") : ~trace[k].ok
          /\ trace[SegEnd(i)].type = "return"

----------------------------------------------------------------------------
(* C6 *)

\* C6: a log call whose appendFileSync fails with error e tries the append
\* once, leaves the file as it was, writes console.error("Failed to write
\* log: " + e) and nothing else to the console, and does not end the process.
C6_SingleFallbackLine ==
    /\ \A i \in Latest("facade") \cup Latest("logger") \cup Latest("end") :
          \A k \in In(i, "append") :
              ~trace[k].ok =>
                  /\ In(i, "append") = {k}
                  /\ In(i, "console") = {k + 1}
                  /\ trace[k + 1].method = "error"
                  /\ trace[k + 1].text = FallbackTextOf[trace[k].err]
                  /\ In(i, "exit") = {}
    /\ Len(file) = Cardinality({k \in DOMAIN trace : trace[k].type = "append" /\ trace[k].ok})
    /\ Len(console) = Cardinality({k \in DOMAIN trace : trace[k].type = "console"})
    /\ Cardinality({n \in DOMAIN console :
                        /\ console[n].method = "error"
                        /\ console[n].text \in FallbackTexts})
         = Cardinality({k \in DOMAIN trace : trace[k].type = "append" /\ ~trace[k].ok})

C6_Witness ==
    /\ \E k \in DOMAIN trace : trace[k].type = "append" /\ ~trace[k].ok
    /\ \E n \in DOMAIN console : console[n].text = FallbackTextOf["ENOSPC"]
    /\ file # <<>>

----------------------------------------------------------------------------
(* C7 *)

\* C7: a request whose 'Request started' call was made gets one 'Request
\* completed' call for each invocation of its res.end, and none without one.
C7_CompletedIffEnd ==
    \A r \in Requests :
        LogsOf(r, "logger") # {} =>
            Cardinality(LogsOf(r, "end")) = Cardinality({i \in Enters("end") : trace[i].req = r})

----------------------------------------------------------------------------
(* C8 *)

\* C8 as stated: one 'Request started' line and at most one 'Request
\* completed' line per request, however often res.end is invoked, the
\* started line first.
C8_AtMostOneCompleted ==
    \A r \in Requests :
        reqs[r].arrived =>
            /\ Cardinality(LogsOf(r, "logger")) = 1
            /\ Cardinality(LogsOf(r, "end")) <= 1
            /\ \A j \in LogsOf(r, "logger"), k \in LogsOf(r, "end") : j < k

\* C8, amended: one 'Request started' line per request and at most one
\* 'Request completed' line per invocation of its res.end (so at most one when
\* res.end is invoked once), the started line before every completed line.
C8_OneCompletedPerEnd ==
    \A r \in Requests :
        reqs[r].arrived =>
            /\ Cardinality(LogsOf(r, "logger")) = 1
            /\ \A j \in LogsOf(r, "logger") :
                  /\ trace[j].level = "INFO"
                  /\ \E id \in UUIDs : trace[j].message = StartedTextOf[id, reqUrl(r)]
            /\ \A i \in Enters("end") : trace[i].req = r => Cardinality(In(i, "log")) <= 1
            /\ \A k \in LogsOf(r, "end") :
                  /\ trace[k].level = "INFO"
                  /\ \E id \in UUIDs : trace[k].message \in CompletedTextsOf[id, reqUrl(r)]
            /\ \A j \in LogsOf(r, "logger"), k \in LogsOf(r, "end") : j < k

C8_Witness ==
    \E r \in Requests :
        /\ Cardinality({i \in Enters("end") : trace[i].req = r}) = 2
        /\ Cardinality(LogsOf(r, "end")) = 2
        /\ Cardinality(LogsOf(r, "logger")) = 1

----------------------------------------------------------------------------
(* C9 *)

\* C9: a run of the wrapped res.end with (chunk, encoding, cb) first makes the
\* 'Request completed' call; if that call returns, it then calls the original
\* end once with (chunk, encoding, cb) and returns what that returned; if it
\* throws, the original end is not called.
C9_LogThenForward ==
    \A i \in Latest("end") :
        \A k \in In(i, "log") :
            /\ \A n \in In(i, "originalEnd") : k < n
            /\ ~trace[k].threw =>
                  /\ Cardinality(In(i, "originalEnd")) = 1
                  /\ \A n \in In(i, "originalEnd") :
                        /\ trace[n].req = trace[i].req
                        /\ trace[n].args = trace[i].args
                        /\ trace[SegEnd(i)].type = "return"
                        /\ trace[SegEnd(i)].value = trace[n].result
            /\ trace[k].threw => In(i, "originalEnd") = {}

C9_Witness ==
    \E i \in Enters("end") :
        /\ trace[i].args = <<"body", "utf8", "cb">>
        /\ \E k \in In(i, "log"), n \in In(i, "originalEnd") :
              k < n /\ trace[n].args = <<"body", "utf8", "cb">>

----------------------------------------------------------------------------
(* C10 *)

\* C10: when next() is called the middleware has already set req.requestId and
\* made the INFO 'Request started' call with the request's method, url and
\* that id; the id stays on the request.
C10_StartedBeforeNext ==
    \A i \in Latest("logger") :
        \A n \in In(i, "next") :
            LET r == trace[i].req
            IN \E a \in In(i, "attach"), k \in In(i, "log") :
                  /\ a < n /\ k < n
                  /\ trace[a].req = r
                  /\ trace[k].level = "INFO"
                  /\ trace[k].method = reqMethod(r)
                  /\ trace[k].message = StartedTextOf[trace[a].requestId, reqUrl(r)]
                  /\ reqs[r].requestId = trace[a].requestId

C10_Witness ==
    \E i \in Enters("logger") :
        /\ In(i, "next") # {}
        /\ reqs[trace[i].req].requestId \in UUIDs

----------------------------------------------------------------------------
(* C11 *)

CompletedTextAt ==
    [id \in UUIDs, url \in Urls, n \in 0..MaxClock |->
        "[" \o id \o "] " \o url \o " - Request completed in " \o ToString(n) \o "ms"]

\* the run of the middleware on request r, and the id it attached
LoggerRunOf(r) == CHOOSE j \in Enters("logger") : trace[j].req = r
AttachedIn(j) == trace[CHOOSE a \in In(j, "attach") : TRUE].requestId

\* C11: whatever other requests did in between, the 'Request completed' line
\* of a res.end call carries the id, url, method and start time that the
\* middleware took for the request whose end was called, and the context of
\* every request is still what its own middleware run made it.
C11_OwnContext ==
    /\ \A i \in Latest("end") :
          \A k \in In(i, "log") :
              LET r == trace[i].req
                  j == LoggerRunOf(r)
              IN /\ trace[k].req = r
                 /\ trace[k].method = trace[j].method
                 /\ trace[j].method = reqMethod(r)
                 /\ trace[j].url = reqUrl(r)
                 /\ trace[k].message =
                       CompletedTextAt[AttachedIn(j), trace[j].url, trace[i].at - trace[j].at]
    /\ \A r \in Requests :
          reqs[r].arrived =>
              LET j == LoggerRunOf(r)
              IN /\ reqs[r].requestId = AttachedIn(j)
                 /\ reqs[r].closure = [requestId |-> AttachedIn(j), method |-> trace[j].method,
                                       url |-> trace[j].url, startTime |-> trace[j].at]

C11_Witness ==
    \E i \in Enters("end"), j \in Enters("logger") :
        /\ trace[i].req = 1 /\ trace[j].req = 2 /\ j < i
        /\ In(i, "log") # {}
        /\ reqs[1].requestId # reqs[2].requestId
        /\ reqs[1].closure.startTime # reqs[2].closure.startTime

----------------------------------------------------------------------------
(* C12 *)

\* C12: the elapsed time of every 'Request completed in <N>ms' line is
\* non-negative: the clock reading at the call of end is at least the reading
\* the middleware took, and N, their difference, is one of 0, 1, 2, ...
C12_ElapsedNonNegative ==
    \A i \in Enters("end") :
        \A k \in In(i, "log") :
            LET j == LoggerRunOf(trace[i].req)
            IN /\ trace[i].at >= trace[j].at
               /\ \E n \in 0..MaxClock :
                     trace[k].message = CompletedTextAt[AttachedIn(j), trace[j].url, n]

----------------------------------------------------------------------------
(* C13 *)

NewLines(s) == Cardinality({i \in 1..Len(s) : SubSeq(s, i, i) = "\n"})

\* the lines of the successful appends of the history, in call order
RECURSIVE AppendedUpTo(_)
AppendedUpTo(k) ==
    IF k = 0 THEN <<>>
    ELSE IF trace[k].type = "append" /\ trace[k].ok
         THEN Append(AppendedUpTo(k - 1), trace[k].line)
         ELSE AppendedUpTo(k - 1)

\* the file is what the successful appends wrote, one record each, in call order
C13_AppendOnly == file = AppendedUpTo(Len(trace))

\* each record is one line: its only line break is its last character
C13_OneLineEach ==
    \A i \in 1..Len(file) :
        /\ SubSeq(file[i], Len(file[i]), Len(file[i])) = "\n"
        /\ NewLines(file[i]) = 1

\* C13: the log file is append-only with one record per line, for every
\* message: each successful call of the default adapter adds exactly one
\* record, after the earlier ones and in call order, and that record is one
\* line ending in a line break.
C13_RecordPerLine == C13_AppendOnly /\ C13_OneLineEach

----------------------------------------------------------------------------
(* C14 *)

\* the appends of the history; the event before an append is the log() call
\* that built its line
Appends == {k \in 1..Len(trace) : trace[k].type = "append"}

MethodSegment(method) == IF method = Undefined THEN "" ELSE method \o " "

\* C14: the plain line of the default adapter is "[LEVEL] ", then "METHOD "
\* exactly when log() was given a method, then "TIMESTAMP: MESSAGE" and a line
\* break.
C14_PlainLine ==
    \A k \in Appends :
        LET call == trace[k - 1]
        IN /\ call.type = "log"
           /\ call.level \in LogLevel
           /\ trace[k].line =
                 "[" \o call.level \o "] " \o MethodSegment(call.method)
                     \o trace[k].timestamp \o ": " \o call.message \o "\n"

\* a line with a method segment and a line without one
C14_Witness ==
    \E k, n \in Appends :
        /\ trace[k - 1].method \in Methods
        /\ trace[n - 1].method = Undefined
        /\ trace[k].line # trace[n].line

----------------------------------------------------------------------------
(* C15 *)

\* C15 speaks of the probability that crypto.randomUUID() repeats a value;
\* the model draws requestId from UUIDs without a distribution, so it has no
\* formula here.

----------------------------------------------------------------------------
(* C16 *)

OkAppends == {k \in Appends : trace[k].ok}

\* the call of the default adapter whose append is event k printed one styled
\* line, right after the append, with the console method `stream` gives its level
OneStyledLine(k, stream(_)) ==
    /\ k + 1 <= Len(trace)
    /\ trace[k + 1].type = "console"
    /\ trace[k + 1].method = stream(trace[k - 1].level)
    /\ trace[k + 1].text # trace[k].line
    /\ Len(trace[k + 1].text) > Len(trace[k].line)
    /\ (k + 2 <= Len(trace) => trace[k + 2].type # "console")

\* the streams as the claim words them: one for ERROR, one shared by WARN and
\* DEBUG, one for the rest
StreamAsClaimed(level) ==
    CASE level = ERROR -> "error"
      [] level \in {WARN, DEBUG} -> "warn"
      [] OTHER -> "log"

\* C16 as stated: after a successful append exactly one styled line is
\* printed, on the error stream for ERROR, on the warning stream for WARN and
\* for DEBUG, on the standard stream otherwise.
C16_StreamAsClaimed == \A k \in OkAppends : OneStyledLine(k, StreamAsClaimed)

StreamByLevel(level) ==
    CASE level = ERROR -> "error"
      [] level = WARN -> "warn"
      [] level = DEBUG -> "debug"
      [] OTHER -> "log"

\* C16, amended: after a successful append exactly one styled line is printed,
\* with console.error for ERROR, console.warn for WARN, console.debug for
\* DEBUG and console.log for INFO; nothing else is printed by that call.
C16_ConsoleByLevel == \A k \in OkAppends : OneStyledLine(k, StreamByLevel)

C16_Witness ==
    \E k \in OkAppends :
        /\ trace[k - 1].level = DEBUG
        /\ trace[k + 1].type = "console"
        /\ Len(console) > 0

----------------------------------------------------------------------------
(* C17 *)

Events(type) == {k \in 1..Len(trace) : trace[k].type = type}

\* C17: the log directory is made, if absent, once, by the module body and
\* before any log call; no log call makes it: a call that finds it missing
\* fails to append, says so on the error console, and leaves it missing.
C17_DirectoryMadeAtLoadOnly ==
    /\ Len(trace) > 0 => trace[1].type = "load"
    /\ Cardinality(Events("load")) <= 1
    /\ \A k \in Events("mkdir") : k = 2 /\ ~trace[1].existed
    /\ (loaded /\ ~trace[1].existed) => Events("mkdir") = {2}
    /\ (loaded /\ Events("rmdir") = {}) => logDirExists
    /\ Events("rmdir") # {} => ~logDirExists
    /\ \A d \in Events("rmdir") :
          \A k \in Appends :
              k > d => /\ ~trace[k].ok
                       /\ trace[k].err = "ENOENT"
                       /\ trace[k + 1] = [type |-> "console", method |-> "error",
                                          text |-> FallbackTextOf["ENOENT"]]

\* the directory was absent at the start and made by the module body, and a
\* later log call found it removed
C17_Witness ==
    /\ Events("mkdir") = {2}
    /\ \E d \in Events("rmdir") : \E k \in Appends : k > d

====
